---- MODULE Spec2Model ----
(***************************************************************************)
(* TeenFin mockup: the TargetCursor controller and the screen navigator.   *)
(*                                                                         *)
(* The repository holds two modules that each export an App with a         *)
(* TargetCursor: src/src/App.tsx (phone mockup, per-screen controls,       *)
(* mount-time runtime checks, press/release feedback) and                  *)
(* src/unnamed/part_000 (four always-present buttons, no runtime checks,   *)
(* pointer-move tracking only).  `variant` says which of them is mounted.  *)
(*                                                                         *)
(* Scale factors are kept in percent (0.95 -> 95) and durations are left   *)
(* out of the tween state except for the rotation period.                  *)
(***************************************************************************)
EXTENDS Integers, Sequences, FiniteSets, TLC

\* ---------------------------------------------------------------- bounds
\* window.innerWidth / window.innerHeight of the host page (pointer
\* coordinates range over 0..InnerWidth x 0..InnerHeight)
InnerWidth == 2
InnerHeight == 1
\* the largest spinDuration prop a parent passes
MaxSpin == 2

\* ------------------------------------------------------------- constants
\* default spinDuration prop
DefaultSpin == 2
\* scale targets of the press / release tweens, in percent
DotPressScale == 80
CursorPressScale == 95
FullScale == 100

Variants == {"full", "lite"}
ScreenNames == {"home", "shop", "save", "invest"}
\* values document.body.style.cursor may hold
CursorValues == {"", "auto", "pointer", "none"}
EventTypes == {"mousemove", "mousedown", "mouseup"}
SpinDurations == 1..MaxSpin
Coords == (0..InnerWidth) \X (0..InnerHeight)
NoPos == <<-1, -1>>
Centre == <<InnerWidth \div 2, InnerHeight \div 2>>

VARIABLES
  variant,        \* which module's App is mounted: App.tsx or part_000
  hostCursor,     \* document.body.style.cursor as the host page set it
  pc,             \* "unmounted", the steps of App's mount effect, "idle"
  \* ---- TargetCursor
  spinDuration,   \* prop
  hideDefaultCursor, \* prop
  elAvailable,    \* cursorRef.current (and its child dotRef.current) is set
  bodyCursor,     \* document.body.style.cursor
  originalCursor, \* the effect closure's capture of bodyCursor
  cleanup,        \* the cleanup the last effect run returned
  listeners,      \* window listeners installed by the controller, per type
  liveTimelines,  \* gsap timelines created and not killed
  spinTl,         \* spinTl.current: "null", "live", "killed"
  spinPeriod,     \* duration of the timeline spinTl.current refers to
  pos,            \* x/y the indicator is set or tweening to
  cursorScale,    \* scale the indicator is tweening to
  dotScale,       \* scale the inner dot is tweening to
  \* ---- navigator
  screen,         \* useState value as of the last render
  queue,          \* setScreen updates not rendered yet
  dom,            \* elements present in the rendered output
  failed,         \* console.assert messages that fired
  lastReq,        \* argument of the most recent setScreen call
  \* ---- host
  lastButton      \* last pointer-button event delivered since the mount

cursorVars == <<spinDuration, hideDefaultCursor, elAvailable, bodyCursor,
                originalCursor, cleanup, listeners, liveTimelines, spinTl,
                spinPeriod, pos, cursorScale, dotScale>>
navVars == <<screen, queue, dom, failed, lastReq>>
vars == <<variant, hostCursor, pc, cursorVars, navVars, lastButton>>

\* ------------------------------------------------------ TargetCursor
\* the controller's state as one value, so that a cleanup followed by an
\* effect run composes
CursorState ==
  [body |-> bodyCursor, orig |-> originalCursor, cleanup |-> cleanup,
   listeners |-> listeners, live |-> liveTimelines, spinTl |-> spinTl,
   period |-> spinPeriod, pos |-> pos]

NoListeners == [t \in EventTypes |-> 0]

\* event types the effect of each module subscribes to
Subscribed(v) ==
  IF v = "full" THEN {"mousemove", "mousedown", "mouseup"} ELSE {"mousemove"}

\* window.addEventListener with a fresh closure, for each type in ts
addEventListener(l, ts) ==
  [t \in EventTypes |-> IF t \in ts THEN l[t] + 1 ELSE l[t]]

\* window.removeEventListener of the closure the same effect run added
removeEventListener(l, ts) ==
  [t \in EventTypes |-> IF t \in ts /\ l[t] > 0 THEN l[t] - 1 ELSE l[t]]

\* spinTl.current?.kill(): kills the referenced timeline if it is alive
kill(c) ==
  IF c.spinTl = "live"
    THEN [c EXCEPT !.live = c.live - 1, !.spinTl = "killed"]
    ELSE c

\* gsap.timeline({repeat: -1}).to(cursor, {rotation: '+=360', duration})
timeline(c, sd) ==
  [c EXCEPT !.live = c.live + 1, !.spinTl = "live", !.period = sd]

\* the cleanup of the early return: () => void 0
EarlyReturn(c) == [c EXCEPT !.cleanup = "noop"]

\* the body of useEffect
Effect(c, v, sd, hide, el) ==
  LET c1 == [c EXCEPT !.orig = c.body,
                      !.body = IF hide THEN "none" ELSE c.body]
  IN IF ~el THEN EarlyReturn(c1)
     ELSE LET c2 == [c1 EXCEPT !.pos = Centre]
              c3 == timeline(kill(c2), sd)
          IN [c3 EXCEPT !.listeners = addEventListener(c3.listeners, Subscribed(v)),
                        !.cleanup = "full"]

\* a cleanup that forgets document.body.style.cursor = originalCursor
CleanupNoRestore(c, v) ==
  IF c.cleanup = "full"
    THEN LET c1 == [c EXCEPT !.listeners =
                               removeEventListener(c.listeners, Subscribed(v))]
         IN [kill(c1) EXCEPT !.cleanup = "none"]
    ELSE [c EXCEPT !.cleanup = "none"]

\* a cleanup that forgets spinTl.current?.kill()
CleanupNoKill(c, v) ==
  IF c.cleanup = "full"
    THEN [c EXCEPT !.listeners = removeEventListener(c.listeners, Subscribed(v)),
                   !.body = c.orig, !.cleanup = "none"]
    ELSE [c EXCEPT !.cleanup = "none"]

\* the function the effect returned
Cleanup(c, v) ==
  IF c.cleanup = "full"
    THEN LET c1 == [c EXCEPT !.listeners =
                               removeEventListener(c.listeners, Subscribed(v))]
             c2 == kill(c1)
         IN [c2 EXCEPT !.body = c2.orig, !.cleanup = "none"]
    ELSE [c EXCEPT !.cleanup = "none"]

SetCursor(c) ==
  /\ bodyCursor' = c.body
  /\ originalCursor' = c.orig
  /\ cleanup' = c.cleanup
  /\ listeners' = c.listeners
  /\ liveTimelines' = c.live
  /\ spinTl' = c.spinTl
  /\ spinPeriod' = c.period
  /\ pos' = c.pos

\* ---------------------------------------------------------- navigator
\* elements each screen view renders (data-testid)
HomeScreen == {"screen-home", "nav-shop", "nav-save", "nav-invest"}
ShopScreen == {"screen-shop", "back-btn"}
SaveScreen == {"screen-save", "back-btn"}
InvestScreen == {"screen-invest", "back-btn"}

\* a PhoneMockup whose home view lacks its screen === 'home' condition
PhoneMockupKeepsHome(s) ==
  {"phone"}
    \cup HomeScreen
    \cup (IF s = "shop" THEN ShopScreen ELSE {})
    \cup (IF s = "save" THEN SaveScreen ELSE {})
    \cup (IF s = "invest" THEN InvestScreen ELSE {})

PhoneMockup(s) ==
  {"phone"}
    \cup (IF s = "home" THEN HomeScreen ELSE {})
    \cup (IF s = "shop" THEN ShopScreen ELSE {})
    \cup (IF s = "save" THEN SaveScreen ELSE {})
    \cup (IF s = "invest" THEN InvestScreen ELSE {})

\* part_000's App: one view per screen and four buttons on every screen
\* (the elements carry no test id there; the names are the model's)
LiteApp(s) ==
  (IF s = "home" THEN {"screen-home"} ELSE {})
    \cup (IF s = "shop" THEN {"screen-shop"} ELSE {})
    \cup (IF s = "save" THEN {"screen-save"} ELSE {})
    \cup (IF s = "invest" THEN {"screen-invest"} ELSE {})
    \cup {"btn-home", "btn-shop", "btn-save", "btn-invest"}

Render(v, s) == IF v = "full" THEN PhoneMockup(s) ELSE LiteApp(s)

Views == {"screen-home", "screen-shop", "screen-save", "screen-invest"}
ViewOf(s) ==
  CASE s = "home" -> "screen-home"
    [] s = "shop" -> "screen-shop"
    [] s = "save" -> "screen-save"
    [] s = "invest" -> "screen-invest"

Controls ==
  {"nav-shop", "nav-save", "nav-invest", "back-btn",
   "btn-home", "btn-shop", "btn-save", "btn-invest"}

\* the screen a control's onClick passes to setScreen
OnClick(ctl) ==
  CASE ctl = "nav-shop" -> "shop"
    [] ctl = "nav-save" -> "save"
    [] ctl = "nav-invest" -> "invest"
    [] ctl = "back-btn" -> "home"
    [] ctl = "btn-home" -> "home"
    [] ctl = "btn-shop" -> "shop"
    [] ctl = "btn-save" -> "save"
    [] ctl = "btn-invest" -> "invest"

\* a setScreen that drops a request for the home screen
setScreenDropsHome(q, t) == IF t = "home" THEN q ELSE Append(q, t)

\* setScreen(t): the update is queued until the next render
setScreen(q, t) == Append(q, t)

\* the state a render computes from the queued updates
ProcessQueue(s, q) == IF q = <<>> THEN s ELSE q[Len(q)]

\* ------------------------------------------------------------ actions
Init ==
  /\ variant \in Variants
  /\ hostCursor \in CursorValues
  /\ pc = "unmounted"
  /\ spinDuration = DefaultSpin
  /\ hideDefaultCursor = TRUE
  /\ elAvailable = FALSE
  /\ bodyCursor = hostCursor
  /\ originalCursor = ""
  /\ cleanup = "none"
  /\ listeners = NoListeners
  /\ liveTimelines = 0
  /\ spinTl = "null"
  /\ spinPeriod = 0
  /\ pos = NoPos
  /\ cursorScale = FullScale
  /\ dotScale = FullScale
  /\ screen = "home"
  /\ queue = <<>>
  /\ dom = {}
  /\ failed = {}
  /\ lastReq = "none"
  /\ lastButton = "none"

\* The page mounts <App/>: first render with useState('home'), refs attached
\* (el says whether cursorRef.current holds the wrapper element when the
\* effect reads it), then the child's effect (TargetCursor) runs; App's own
\* mount effect follows in the same flush, step by step below.  sd and hide
\* are TargetCursor's props (both Apps pass 2 and true; the component takes
\* any).
Mount(sd, hide, el) ==
  /\ pc = "unmounted"
  /\ spinDuration' = sd
  /\ hideDefaultCursor' = hide
  /\ elAvailable' = el
  /\ cursorScale' = FullScale
  /\ dotScale' = FullScale
  /\ SetCursor(Effect([CursorState EXCEPT !.spinTl = "null", !.period = 0,
                                          !.pos = NoPos],
                      variant, sd, hide, el))
  /\ screen' = "home"
  /\ queue' = <<>>
  /\ dom' = Render(variant, "home")
  /\ failed' = {}
  /\ lastReq' = "none"
  /\ pc' = IF variant = "full" THEN "checkHome" ELSE "idle"
  /\ lastButton' = "none"
  /\ UNCHANGED <<variant, hostCursor>>

\* A parent re-renders TargetCursor with other props: the dependency list
\* [hideDefaultCursor, moveCursor, spinDuration] changed, so React runs the
\* previous cleanup and then the effect again.
SetProps(sd, hide) ==
  /\ pc = "idle"
  /\ <<sd, hide>> # <<spinDuration, hideDefaultCursor>>
  /\ spinDuration' = sd
  /\ hideDefaultCursor' = hide
  /\ SetCursor(Effect(Cleanup(CursorState, variant), variant, sd, hide, elAvailable))
  /\ UNCHANGED <<variant, hostCursor, pc, elAvailable, cursorScale, dotScale,
                 navVars, lastButton>>

\* The page unmounts <App/>: refs are detached and the cleanup runs.
Unmount ==
  /\ pc = "idle"
  /\ elAvailable' = FALSE
  /\ SetCursor([Cleanup(CursorState, variant) EXCEPT !.spinTl = "null", !.period = 0,
                                                     !.pos = NoPos])
  /\ cursorScale' = FullScale
  /\ dotScale' = FullScale
  /\ queue' = <<>>
  /\ dom' = {}
  /\ pc' = "unmounted"
  /\ lastButton' = "none"
  /\ UNCHANGED <<variant, hostCursor, spinDuration, hideDefaultCursor,
                 screen, failed, lastReq>>

\* moveCursor(x, y)
moveCursor(p) == IF elAvailable THEN p ELSE pos

\* mouseDownHandler / mouseUpHandler: the scale targets <<dot, cursor>>
mouseDownHandler ==
  IF elAvailable THEN <<DotPressScale, CursorPressScale>> ELSE <<dotScale, cursorScale>>
mouseUpHandler ==
  IF elAvailable THEN <<FullScale, FullScale>> ELSE <<dotScale, cursorScale>>

\* The host delivers a pointer event (at any time outside a running effect).
Quiet == pc \in {"idle", "unmounted"}

MouseMove(p) ==
  /\ Quiet
  /\ pos' = IF listeners["mousemove"] > 0 THEN moveCursor(p) ELSE pos
  /\ UNCHANGED <<variant, hostCursor, pc, spinDuration, hideDefaultCursor,
                 elAvailable, bodyCursor, originalCursor, cleanup, listeners,
                 liveTimelines, spinTl, spinPeriod, cursorScale, dotScale, navVars,
                 lastButton>>

MouseDown ==
  /\ Quiet
  /\ lastButton' = IF pc = "idle" THEN "down" ELSE lastButton
  /\ LET t == IF listeners["mousedown"] > 0 THEN mouseDownHandler
              ELSE <<dotScale, cursorScale>>
     IN dotScale' = t[1] /\ cursorScale' = t[2]
  /\ UNCHANGED <<variant, hostCursor, pc, spinDuration, hideDefaultCursor,
                 elAvailable, bodyCursor, originalCursor, cleanup, listeners,
                 liveTimelines, spinTl, spinPeriod, pos, navVars>>

MouseUp ==
  /\ Quiet
  /\ lastButton' = IF pc = "idle" THEN "up" ELSE lastButton
  /\ LET t == IF listeners["mouseup"] > 0 THEN mouseUpHandler
              ELSE <<dotScale, cursorScale>>
     IN dotScale' = t[1] /\ cursorScale' = t[2]
  /\ UNCHANGED <<variant, hostCursor, pc, spinDuration, hideDefaultCursor,
                 elAvailable, bodyCursor, originalCursor, cleanup, listeners,
                 liveTimelines, spinTl, spinPeriod, pos, navVars>>

\* ---- App's mount effect (App.tsx only), one step per statement group.
\* A click dispatched from inside the effect queues its setScreen update;
\* React renders it only after the effect has returned (Flush).
NavStep(next) ==
  /\ pc' = next
  /\ UNCHANGED <<variant, hostCursor, cursorVars, lastButton>>

\* Test 1 and Test 2
CheckHome ==
  /\ pc = "checkHome"
  /\ failed' = failed
       \cup (IF "phone" \in dom THEN {} ELSE {"Phone mockup should render"})
       \cup (IF "screen-home" \in dom THEN {}
             ELSE {"Home screen should be visible on mount"})
  /\ UNCHANGED <<screen, queue, dom, lastReq>>
  /\ NavStep("clickInvest")

\* Test 3: investBtn?.click()
ClickInvest ==
  /\ pc = "clickInvest"
  /\ IF "nav-invest" \in dom
       THEN /\ queue' = setScreen(queue, OnClick("nav-invest"))
            /\ lastReq' = OnClick("nav-invest")
       ELSE UNCHANGED <<queue, lastReq>>
  /\ UNCHANGED <<screen, dom, failed>>
  /\ NavStep("checkInvest")

\* console.assert(sawInvest, ...)
CheckInvest ==
  /\ pc = "checkInvest"
  /\ failed' = failed
       \cup (IF "screen-invest" \in dom THEN {}
             ELSE {"Invest screen should be shown after clicking nav-invest"})
  /\ UNCHANGED <<screen, queue, dom, lastReq>>
  /\ NavStep("clickBack")

\* backBtn?.click()
ClickBack ==
  /\ pc = "clickBack"
  /\ IF "back-btn" \in dom
       THEN /\ queue' = setScreen(queue, OnClick("back-btn"))
            /\ lastReq' = OnClick("back-btn")
       ELSE UNCHANGED <<queue, lastReq>>
  /\ UNCHANGED <<screen, dom, failed>>
  /\ NavStep("checkBack")

\* the last console.assert
CheckBack ==
  /\ pc = "checkBack"
  /\ failed' = failed
       \cup (IF "screen-home" \in dom THEN {}
             ELSE {"Home screen should be visible after going back"})
  /\ UNCHANGED <<screen, queue, dom, lastReq>>
  /\ NavStep("flush")

\* the effect has returned: React renders the queued updates
Flush ==
  /\ pc = "flush"
  /\ screen' = ProcessQueue(screen, queue)
  /\ dom' = Render(variant, screen')
  /\ queue' = <<>>
  /\ UNCHANGED <<failed, lastReq>>
  /\ NavStep("idle")

\* The user clicks a rendered control: its handler calls setScreen and React
\* renders before the next event.
Click(ctl) ==
  /\ pc = "idle"
  /\ ctl \in dom
  /\ lastReq' = OnClick(ctl)
  /\ screen' = ProcessQueue(screen, setScreen(queue, OnClick(ctl)))
  /\ dom' = Render(variant, screen')
  /\ queue' = <<>>
  /\ UNCHANGED <<variant, hostCursor, pc, cursorVars, failed, lastButton>>

Lifecycle(els) ==
  \/ \E sd \in SpinDurations, hide \in BOOLEAN, el \in els : Mount(sd, hide, el)
  \/ \E sd \in SpinDurations, hide \in BOOLEAN : SetProps(sd, hide)
  \/ Unmount

Pointer ==
  \/ \E p \in Coords : MouseMove(p)
  \/ MouseDown
  \/ MouseUp

MountEffect ==
  \/ CheckHome
  \/ ClickInvest
  \/ CheckInvest
  \/ ClickBack
  \/ CheckBack
  \/ Flush

Next ==
  \/ Lifecycle(BOOLEAN)
  \/ Pointer
  \/ MountEffect
  \/ \E ctl \in Controls : Click(ctl)

Spec == Init /\ [][Next]_vars

\* the runs in which the wrapper element is there at every activation
NextAvail ==
  \/ Lifecycle({TRUE})
  \/ Pointer
  \/ MountEffect
  \/ \E ctl \in Controls : Click(ctl)

SpecAvail == Init /\ [][NextAvail]_vars

TypeOK ==
  /\ variant \in Variants
  /\ hostCursor \in CursorValues
  /\ pc \in {"unmounted", "checkHome", "clickInvest", "checkInvest",
             "clickBack", "checkBack", "flush", "idle"}
  /\ spinDuration \in SpinDurations
  /\ hideDefaultCursor \in BOOLEAN
  /\ elAvailable \in BOOLEAN
  /\ bodyCursor \in CursorValues
  /\ originalCursor \in CursorValues
  /\ cleanup \in {"none", "noop", "full"}
  /\ listeners \in [EventTypes -> Nat]
  /\ liveTimelines \in Nat
  /\ spinTl \in {"null", "live", "killed"}
  /\ spinPeriod \in 0..MaxSpin
  /\ pos \in Coords \cup {NoPos}
  /\ cursorScale \in {CursorPressScale, FullScale}
  /\ dotScale \in {DotPressScale, FullScale}
  /\ screen \in ScreenNames
  /\ queue \in Seq(ScreenNames)
  /\ dom \subseteq Views \cup Controls \cup {"phone"}
  /\ lastReq \in ScreenNames \cup {"none"}
  /\ lastButton \in {"none", "down", "up"}

\* ------------------------------------------------------------- claims
Mounted == pc # "unmounted"

\* C1: teardown restores the native cursor to the value captured at
\* activation on every exit path, the interrupted activation included: once
\* the controller is deactivated, document.body.style.cursor is what it was
\* before the activation.
C1_RestoredOnEveryExitPath == ~Mounted => bodyCursor = hostCursor

\* C2: with the element available at every activation, the native cursor is
\* 'none' while the controller is active with hideDefaultCursor, still the
\* host's value while it is active without it, and exactly the host's value
\* after deactivation.
C2_NativeCursor ==
  /\ (Mounted /\ hideDefaultCursor) => bodyCursor = "none"
  /\ (Mounted /\ ~hideDefaultCursor) => bodyCursor = hostCursor
  /\ ~Mounted => bodyCursor = hostCursor

\* hidden by an activation with hideDefaultCursor, then restored by teardown
C2_Witness ==
  /\ ~Mounted
  /\ hideDefaultCursor
  /\ hostCursor = "pointer"
  /\ originalCursor = "pointer"
  /\ bodyCursor = "pointer"
  /\ spinDuration = 1

\* C3: navigation is total and last-write-wins: whenever every request has
\* been rendered, the current screen is the target of the last request; and
\* a request for the screen already current leaves it unchanged.
C3_LastWriteWins ==
  /\ [](pc = "idle" /\ lastReq # "none" => screen = lastReq /\ queue = <<>>)
  /\ [][(pc = "idle" /\ pc' = "idle" /\ lastReq' = screen) => screen' = screen]_vars

\* several requests were made and the last one, for Shop, is the screen
C3_Witness ==
  /\ pc = "idle"
  /\ lastReq = "shop"
  /\ screen = "shop"
  /\ variant = "full"

\* C4: the controls form a strict star: a user-triggered transition either
\* leaves Home or returns to Home, never joins two non-Home screens.
C4_StarTopology ==
  [][(pc = "idle" /\ pc' = "idle" /\ screen' # screen)
       => (screen = "home" \/ screen' = "home")]_vars

\* C5: exactly one of the four screen views is in the rendered output, the
\* one of the current screen.
C5_ExactlyOneView == Mounted => dom \cap Views = {ViewOf(screen)}

\* a navigation from Home to Save has been rendered
C5_Witness ==
  /\ pc = "idle"
  /\ lastReq = "save"
  /\ screen = "save"
  /\ dom \cap Views = {"screen-save"}

\* C6: the mount-time navigation check passes at every assertion point:
\* right after the Invest control is invoked the Invest view is present and
\* the Home view absent; a Back control is then found and invoked, after
\* which the Home view is present and the Invest view absent; and no
\* console.assert fires.
C6_MountCheckPasses ==
  /\ pc \in {"checkInvest", "clickBack"}
       => ("screen-invest" \in dom /\ "screen-home" \notin dom)
  /\ pc = "clickBack" => "back-btn" \in dom
  /\ pc \in {"checkBack", "flush"}
       => ("screen-home" \in dom /\ "screen-invest" \notin dom /\ lastReq = "home")
  /\ failed = {}

\* C7: when the mount sequence (first render, the mount checks and the
\* renders they trigger) completes, the current screen is Home and the Home
\* view is the one view present.
C7_HomeAfterMount ==
  [][(pc = "flush" /\ pc' = "idle")
       => (screen' = "home" /\ dom' \cap Views = {"screen-home"})]_vars

\* C8: after teardown no mousemove, mousedown or mouseup handler of the
\* controller stays registered and a pointer event starts no tween; while
\* the controller is active (its element available), exactly one handler
\* per event type is registered.
C8_Subscriptions ==
  /\ [](~Mounted => \A t \in EventTypes : listeners[t] = 0)
  /\ []((Mounted /\ elAvailable) => \A t \in EventTypes : listeners[t] = 1)
  /\ [][(~Mounted /\ ~Mounted') => UNCHANGED <<pos, cursorScale, dotScale>>]_vars

\* C9: the number of live rotation timelines is 1 while the controller is
\* active with its element available and 0 otherwise; the live timeline is
\* the one spinTl refers to and has the current spinDuration; the count
\* changes only at activation and deactivation.
C9_OneRotation ==
  /\ [](liveTimelines = IF Mounted /\ elAvailable THEN 1 ELSE 0)
  /\ []((Mounted /\ elAvailable) => (spinTl = "live" /\ spinPeriod = spinDuration))
  /\ [][(Mounted /\ Mounted') => liveTimelines' = liveTimelines]_vars

\* the rotation survived a re-activation with a new spinDuration
C9_Witness ==
  /\ pc = "idle"
  /\ elAvailable
  /\ spinDuration = 1
  /\ hideDefaultCursor = FALSE
  /\ spinPeriod = 1
  /\ liveTimelines = 1
  /\ lastButton = "up"

\* C10: while the controller is active (its element available), the scale
\* targets are those of the last pointer-button event: 0.8 for the dot and
\* 0.95 for the indicator after a press, 1 for both after a release.
C10_PressFeedback ==
  /\ (Mounted /\ elAvailable /\ lastButton = "down")
       => (dotScale = DotPressScale /\ cursorScale = CursorPressScale)
  /\ (Mounted /\ elAvailable /\ lastButton = "up")
       => (dotScale = FullScale /\ cursorScale = FullScale)
====
